---- MODULE Spec2Model ----
(***************************************************************************)
(* Model of src/main.py: a FastAPI websocket broadcast server.             *)
(*                                                                         *)
(* The program is a set of asyncio tasks on one event loop.  A task runs   *)
(* without interruption from one await to the next, so every action below  *)
(* is the code between two suspension points of one task:                  *)
(*   - one websocket_endpoint per client (accept, then receive loop),      *)
(*   - notify_clients_periodically (sleep 10, broadcast),                  *)
(*   - graceful_shutdown, run by the lifespan exit (task LifespanCall) and *)
(*     by every task that handle_signal creates (tasks 1..MaxSignals).     *)
(* The clock `now` stands for datetime.utcnow() / the loop's timer; a      *)
(* sleeping or freshly created task runs as soon as it is due, a send may  *)
(* stay suspended for any length of time.                                  *)
(***************************************************************************)
EXTENDS Integers, Sequences, FiniteSets, TLC

\* ---- bounds of the model ------------------------------------------------
NConn == 3            \* number of distinct client connections in a run
MaxSignals == 1       \* number of graceful_shutdown tasks handle_signal may create
MaxStart == 1         \* latest clock value at which a shutdown may be triggered
MaxInputs == 3        \* number of external events (client connections, shutdown triggers) in a run
LiveInputs == 2       \* the same number in the runs checked for liveness
NotifyInputs == 2     \* the same number in the runs that follow the notifier
DrainTimeout == 5     \* timedelta(minutes=30) of line 130, scaled down to clock units

\* ---- program constants --------------------------------------------------
PollInterval == 5     \* asyncio.sleep(5) of the drain loop
NotifyInterval == 10  \* asyncio.sleep(10) of the notifier

\* the clock runs until every drain loop has ended (DrainEnd) or, in the runs
\* that follow the notifier, until a broadcast of the notifier can have lasted
\* one notify period (MaxTime)
DrainEnd == MaxStart + DrainTimeout + PollInterval

MaxTime == IF DrainEnd > 2 * NotifyInterval THEN DrainEnd ELSE 2 * NotifyInterval

Conns == 1..NConn
LifespanCall == 0
SignalTasks == 1..MaxSignals
Shutdowns == {LifespanCall} \cup SignalTasks
NotifyTask == MaxSignals + 1
Tasks == Shutdowns \cup {NotifyTask}

VARIABLES
  status,          \* per connection: "new", "open", "gone" (peer left, receive_text has not raised yet), "closed"
  active,          \* manager.active_connections, a list
  shutdown_event,  \* app.state.shutdown_event.is_set()
  requested_at,    \* app.state.shutdown_requested_at: {} is None, {t} a timestamp
  now,             \* the clock
  pc,              \* per task: where it is suspended
  wake,            \* per task: the clock value its asyncio.sleep ends at
  deadline,        \* per graceful_shutdown call: its local variable deadline
  it,              \* per task: index of the list iterator of broadcast's for loop
  cur,             \* per task: the connection whose send_text is awaited
  failed,          \* per task: broadcast's local list `disconnected`
  bstart,          \* history: active_connections when the task's broadcast call started
  blog,            \* history: the connections send_text was called on in the task's broadcast call
  nAdded,          \* history: number of appends to active_connections
  nRemoved,        \* history: number of removes from active_connections
  nWarnings,       \* history: number of drain-warning broadcasts started
  budget,          \* the number of external events this run may see
  horizon,         \* the clock value at which this run's clock stops
  inflight         \* history: broadcast calls of the notifier started and not yet over

vars == <<status, active, shutdown_event, requested_at, now, pc, wake, deadline,
          it, cur, failed, bstart, blog, nAdded, nRemoved, nWarnings, budget, horizon, inflight>>

Range(s) == {s[i] : i \in 1..Len(s)}

\* ---- ConnectionManager --------------------------------------------------
\* list.remove: drops the first occurrence
RECURSIVE remove(_, _)
remove(l, c) ==
  IF l = <<>> THEN <<>>
  ELSE IF Head(l) = c THEN Tail(l)
  ELSE <<Head(l)>> \o remove(Tail(l), c)

connect(l, c) == Append(l, c)

\* a disconnect that looks the index up and deletes at it, the index being -1
\* (the last element) when the connection is absent
disconnect_by_index(l, c) ==
  IF c \in Range(l) THEN remove(l, c) ELSE SubSeq(l, 1, Len(l) - 1)

disconnect(l, c) == IF c \in Range(l) THEN remove(l, c) ELSE l

count(l) == Len(l)

is_empty(l) == Len(l) = 0

\* the second loop of broadcast: disconnect every collected connection
RECURSIVE cleanup(_, _)
cleanup(l, d) ==
  IF d = <<>> THEN l ELSE cleanup(disconnect(l, Head(d)), Tail(d))

\* number of elements the second loop of broadcast really removes
RECURSIVE removals(_, _)
removals(l, d) ==
  IF d = <<>> THEN 0
  ELSE (IF Head(d) \in Range(l) THEN 1 ELSE 0) + removals(disconnect(l, Head(d)), Tail(d))

\* send_text raises when the peer is gone or the socket is closed
send_fails(c) == status[c] # "open"

\* ---- helpers of the actions ----------------------------------------------
TheTime(ra) == CHOOSE x \in ra : TRUE

\* notify_clients_periodically from its loop test (line 114) to its next await
notify_loop(ev) ==
  IF ev THEN [pc |-> "done", wake |-> 0]
  ELSE [pc |-> "sleep", wake |-> now + NotifyInterval]

\* a drain loop that never looks at the deadline
drain_loop_no_deadline(act, dl) ==
  IF ~is_empty(act)
  THEN [pc |-> "sleep", wake |-> now + PollInterval]
  ELSE [pc |-> "done", wake |-> 0]

\* a drain loop that never looks at the registry
drain_loop_no_empty(act, dl) ==
  IF now < dl
  THEN [pc |-> "sleep", wake |-> now + PollInterval]
  ELSE [pc |-> "done", wake |-> 0]

\* graceful_shutdown from its loop test (line 131) to its next await or its end
drain_loop(act, dl) ==
  IF now < dl /\ ~is_empty(act)
  THEN [pc |-> "sleep", wake |-> now + PollInterval]
  ELSE [pc |-> "done", wake |-> 0]

\* what task t does when its broadcast call returns: the notifier goes back to
\* its loop test, graceful_shutdown computes its deadline and enters the loop
after_broadcast(t, act, ra) ==
  IF t = NotifyTask
  THEN [r |-> notify_loop(shutdown_event), dl |-> 0]
  ELSE [r |-> drain_loop(act, TheTime(ra) + DrainTimeout),
        dl |-> TheTime(ra) + DrainTimeout]

\* lines 42-47: when the lifespan's graceful_shutdown call is over the notifier
\* task is cancelled; a cancelled task executes no further statement
Cancels(t, r) == t = LifespanCall /\ r.pc = "done"

Cancelled(t2) == t2 = NotifyTask /\ pc[t2] \in {"sleep", "send"}

\* the list the iterator of broadcast's for loop reads when asked for an
\* element: the live list active_connections, not the list st of the call's start
iter_snapshot(st) == st

iter_list(st) == active

\* line 140: Event.set()
toggle_event(ev) == ~ev

set_event(ev) == TRUE

\* The for loop of broadcast (lines 70-79) asking its list iterator for the next
\* element: idx is the iterator's index, f the list `disconnected`.  The iterator
\* reads the live list.  With an element left the loop calls send_text on it and
\* suspends; otherwise the second loop disconnects the collected connections and
\* the caller goes on.
for_next(t, idx, f, ra, st, lg) ==
  IF idx < Len(iter_list(st))
  THEN /\ pc' = [pc EXCEPT ![t] = "send"]
       /\ it' = [it EXCEPT ![t] = idx + 1]
       /\ cur' = [cur EXCEPT ![t] = iter_list(st)[idx + 1]]
       /\ failed' = [failed EXCEPT ![t] = f]
       /\ bstart' = [bstart EXCEPT ![t] = st]
       /\ blog' = [blog EXCEPT ![t] = Append(lg, iter_list(st)[idx + 1])]
       /\ inflight' = IF t = NotifyTask /\ idx = 0 THEN inflight + 1 ELSE inflight
       /\ UNCHANGED <<active, shutdown_event, wake, deadline, nRemoved>>
  ELSE LET act == cleanup(active, f)
           a == after_broadcast(t, act, ra)
           stop == Cancels(t, a.r)
       IN /\ active' = act
          /\ nRemoved' = nRemoved + removals(active, f)
          /\ pc' = [t2 \in Tasks |-> IF t2 = t THEN a.r.pc
                                     ELSE IF stop /\ Cancelled(t2) THEN "cancelled"
                                     ELSE pc[t2]]
          /\ wake' = [t2 \in Tasks |-> IF t2 = t THEN a.r.wake
                                       ELSE IF stop /\ Cancelled(t2) THEN 0
                                       ELSE wake[t2]]
          /\ deadline' = IF t = NotifyTask THEN deadline
                         ELSE [deadline EXCEPT ![t] = a.dl]
          /\ shutdown_event' = IF t # NotifyTask /\ a.r.pc = "done"
                                THEN set_event(shutdown_event) ELSE shutdown_event
          /\ inflight' = IF t = NotifyTask THEN inflight - 1
                          ELSE IF stop /\ pc[NotifyTask] = "send" THEN 0
                          ELSE inflight
          /\ it' = [t2 \in Tasks |-> IF t2 = t \/ (stop /\ Cancelled(t2)) THEN 0 ELSE it[t2]]
          /\ cur' = [t2 \in Tasks |-> IF t2 = t \/ (stop /\ Cancelled(t2)) THEN 0 ELSE cur[t2]]
          /\ failed' = [t2 \in Tasks |-> IF t2 = t \/ (stop /\ Cancelled(t2)) THEN <<>> ELSE failed[t2]]
          /\ bstart' = [t2 \in Tasks |-> IF t2 = t \/ (stop /\ Cancelled(t2)) THEN <<>> ELSE bstart[t2]]
          /\ blog' = [t2 \in Tasks |-> IF t2 = t \/ (stop /\ Cancelled(t2)) THEN <<>> ELSE blog[t2]]

\* external events so far: connections accepted and shutdown triggers
Inputs == nAdded + Cardinality({g \in Shutdowns : pc[g] # "idle"})

\* ---- initial state: lifespan has run up to its yield ---------------------
Start(b, h) ==
  /\ budget = b
  /\ horizon = h
  /\ status = [c \in Conns |-> "new"]
  /\ active = <<>>
  /\ shutdown_event = FALSE
  /\ requested_at = {}
  /\ now = 0
  /\ pc = [t \in Tasks |-> IF t = NotifyTask THEN "sleep" ELSE "idle"]
  /\ wake = [t \in Tasks |-> IF t = NotifyTask THEN NotifyInterval ELSE 0]
  /\ deadline = [g \in Shutdowns |-> 0]
  /\ it = [t \in Tasks |-> 0]
  /\ cur = [t \in Tasks |-> 0]
  /\ failed = [t \in Tasks |-> <<>>]
  /\ bstart = [t \in Tasks |-> <<>>]
  /\ blog = [t \in Tasks |-> <<>>]
  /\ nAdded = 0
  /\ nRemoved = 0
  /\ nWarnings = 0
  /\ inflight = 0

Init == Start(MaxInputs, DrainEnd)

LiveInit == Start(LiveInputs, DrainEnd)

\* the scenario of NConn clients and one shutdown
ScenarioInit == Start(NConn + 1, DrainEnd)

\* ---- websocket_endpoint ---------------------------------------------------
\* lines 90, 58-61: a client is accepted and appended.  Every websocket object
\* is new; connections are numbered in the order they connect.
websocket_connect(c) ==
  /\ status[c] = "new"
  /\ Inputs < budget
  /\ \A d \in Conns : d < c => status[d] # "new"
  /\ status' = [status EXCEPT ![c] = "open"]
  /\ active' = connect(active, c)
  /\ nAdded' = nAdded + 1
  /\ UNCHANGED <<shutdown_event, requested_at, now, pc, wake, deadline, it, cur,
                 failed, bstart, blog, nRemoved, nWarnings, budget, horizon, inflight>>

\* the peer goes away: from now on send_text raises and receive_text will raise
peer_close(c) ==
  /\ status[c] = "open"
  /\ status' = [status EXCEPT ![c] = "gone"]
  /\ UNCHANGED <<active, shutdown_event, requested_at, now, pc, wake, deadline,
                 it, cur, failed, bstart, blog, nAdded, nRemoved, nWarnings, budget, horizon, inflight>>

\* lines 94-95: receive_text raises WebSocketDisconnect, the handler disconnects
websocket_disconnect(c) ==
  /\ status[c] = "gone"
  /\ status' = [status EXCEPT ![c] = "closed"]
  /\ active' = disconnect(active, c)
  /\ nRemoved' = nRemoved + (IF c \in Range(active) THEN 1 ELSE 0)
  /\ UNCHANGED <<shutdown_event, requested_at, now, pc, wake, deadline, it, cur,
                 failed, bstart, blog, nAdded, nWarnings, budget, horizon, inflight>>

\* ---- broadcast ------------------------------------------------------------
\* lines 71-75: the awaited send_text returns or raises, then the loop goes on
send_done(t) ==
  /\ pc[t] = "send"
  /\ for_next(t, it[t],
              IF send_fails(cur[t]) THEN Append(failed[t], cur[t]) ELSE failed[t],
              requested_at, bstart[t], blog[t])
  /\ UNCHANGED <<status, requested_at, now, nAdded, nWarnings, budget, horizon>>

\* ---- notify_clients_periodically -----------------------------------------
\* a timer that fires every period, whether or not the last broadcast is over
NotifyDue_timer == pc[NotifyTask] \in {"sleep", "send"} /\ wake[NotifyTask] <= now

\* the one notifier task goes on when its own sleep is over
NotifyDue == pc[NotifyTask] = "sleep" /\ wake[NotifyTask] <= now

\* lines 115-119: the sleep is over; broadcast if there is a client
notify_wake ==
  /\ NotifyDue
  /\ IF count(active) > 0
     THEN for_next(NotifyTask, 0, <<>>, requested_at, active, <<>>)
     ELSE LET r == notify_loop(shutdown_event)
          IN /\ pc' = [pc EXCEPT ![NotifyTask] = r.pc]
             /\ wake' = [wake EXCEPT ![NotifyTask] = r.wake]
             /\ UNCHANGED <<active, shutdown_event, deadline, it, cur, failed,
                            bstart, blog, nRemoved, inflight>>
  /\ UNCHANGED <<status, requested_at, now, nAdded, nWarnings, budget, horizon>>

\* ---- shutdown -------------------------------------------------------------
\* lines 28-31: a SIGTERM or SIGINT arrives
handle_signal ==
  /\ now <= MaxStart
  /\ Inputs < budget
  /\ ~shutdown_event
  /\ \E g \in SignalTasks :
       /\ pc[g] = "idle"
       /\ \A h \in SignalTasks : h < g => pc[h] # "idle"
       /\ pc' = [pc EXCEPT ![g] = "created"]
  /\ UNCHANGED <<status, active, shutdown_event, requested_at, now, wake, deadline,
                 it, cur, failed, bstart, blog, nAdded, nRemoved, nWarnings, budget, horizon, inflight>>

\* lines 124-128: graceful_shutdown records the time and broadcasts the warning
graceful_shutdown(g) ==
  /\ requested_at' = {now}
  /\ nWarnings' = nWarnings + 1
  /\ for_next(g, 0, <<>>, {now}, active, <<>>)
  /\ UNCHANGED <<status, now, nAdded, budget, horizon>>

\* the task created by handle_signal starts to run
signal_task(g) ==
  /\ g \in SignalTasks
  /\ pc[g] = "created"
  /\ graceful_shutdown(g)

\* line 42: the lifespan context is left and calls graceful_shutdown
lifespan_exit ==
  /\ pc[LifespanCall] = "idle"
  /\ now <= MaxStart
  /\ Inputs < budget
  /\ graceful_shutdown(LifespanCall)

\* lines 131-140: the poll sleep is over
drain_wake(g) ==
  /\ pc[g] = "sleep"
  /\ wake[g] <= now
  /\ LET r == drain_loop(active, deadline[g])
         stop == Cancels(g, r)
     IN /\ pc' = [t2 \in Tasks |-> IF t2 = g THEN r.pc
                                   ELSE IF stop /\ Cancelled(t2) THEN "cancelled"
                                   ELSE pc[t2]]
        /\ wake' = [t2 \in Tasks |-> IF t2 = g THEN r.wake
                                     ELSE IF stop /\ Cancelled(t2) THEN 0
                                     ELSE wake[t2]]
        /\ shutdown_event' = IF r.pc = "done" THEN set_event(shutdown_event) ELSE shutdown_event
        /\ inflight' = IF stop /\ pc[NotifyTask] = "send" THEN 0 ELSE inflight
        /\ it' = [t2 \in Tasks |-> IF stop /\ Cancelled(t2) THEN 0 ELSE it[t2]]
        /\ cur' = [t2 \in Tasks |-> IF stop /\ Cancelled(t2) THEN 0 ELSE cur[t2]]
        /\ failed' = [t2 \in Tasks |-> IF stop /\ Cancelled(t2) THEN <<>> ELSE failed[t2]]
        /\ bstart' = [t2 \in Tasks |-> IF stop /\ Cancelled(t2) THEN <<>> ELSE bstart[t2]]
        /\ blog' = [t2 \in Tasks |-> IF stop /\ Cancelled(t2) THEN <<>> ELSE blog[t2]]
  /\ UNCHANGED <<status, active, requested_at, now, deadline,
                 nAdded, nRemoved, nWarnings, budget, horizon>>

\* ---- status ---------------------------------------------------------------
\* lines 98-109: the answer of GET /status; it reads and changes nothing.
\* {} is None, isoformat() gives the text of the timestamp
get_status ==
  [active_connections |-> count(active),
   shutdown_requested |-> shutdown_event,
   shutdown_requested_at |->
     IF requested_at # {} THEN {<<"isoformat", TheTime(requested_at)>>} ELSE {}]

\* ---- time -----------------------------------------------------------------
\* the clock advances when no created task and no finished sleep is waiting
Due(t) == pc[t] = "created" \/ (pc[t] = "sleep" /\ wake[t] <= now)

Tick ==
  /\ now < horizon
  /\ \A t \in Tasks : ~Due(t)
  /\ now' = now + 1
  /\ UNCHANGED <<status, active, shutdown_event, requested_at, pc, wake, deadline,
                 it, cur, failed, bstart, blog, nAdded, nRemoved, nWarnings, budget, horizon, inflight>>

Next ==
  \/ \E c \in Conns : websocket_connect(c)
  \/ \E c \in Conns : peer_close(c)
  \/ \E c \in Conns : websocket_disconnect(c)
  \/ \E t \in Tasks : send_done(t)
  \/ notify_wake
  \/ handle_signal
  \/ \E g \in SignalTasks : signal_task(g)
  \/ lifespan_exit
  \/ \E g \in Shutdowns : drain_wake(g)
  \/ Tick

Spec == Init /\ [][Next]_vars

ScenarioSpec == ScenarioInit /\ [][Next]_vars

\* the runs that follow the notifier over two notify periods
NotifyInit == Start(NotifyInputs, MaxTime)

NotifySpec == NotifyInit /\ [][Next]_vars

\* ---- the ConnectionManager called directly ---------------------------------
\* connect and disconnect are public methods: here each is called with any
\* connection, one already registered included, a bounded number of times
connect_call(c) ==
  /\ nAdded <= NConn
  /\ active' = connect(active, c)
  /\ nAdded' = nAdded + 1
  /\ UNCHANGED <<status, shutdown_event, requested_at, now, pc, wake, deadline, it,
                 cur, failed, bstart, blog, nRemoved, nWarnings, budget, horizon, inflight>>

disconnect_call(c) ==
  /\ active' = disconnect(active, c)
  /\ nRemoved' = nRemoved + (IF c \in Range(active) THEN 1 ELSE 0)
  /\ UNCHANGED <<status, shutdown_event, requested_at, now, pc, wake, deadline, it,
                 cur, failed, bstart, blog, nAdded, nWarnings, budget, horizon, inflight>>

ManagerInit == Start(0, DrainEnd)

ManagerNext ==
  \/ \E c \in Conns : connect_call(c)
  \/ \E c \in Conns : disconnect_call(c)

ManagerSpec == ManagerInit /\ [][ManagerNext]_vars

\* The event loop runs every task that is ready and the clock advances.
Fairness ==
  /\ WF_vars(Tick)
  /\ WF_vars(notify_wake)
  /\ \A t \in Tasks : WF_vars(send_done(t))
  /\ \A g \in SignalTasks : WF_vars(signal_task(g))
  /\ \A g \in Shutdowns : WF_vars(drain_wake(g))

LiveSpec == LiveInit /\ [][Next]_vars /\ Fairness

\* ---- properties -----------------------------------------------------------
Count(l, c) == Cardinality({i \in 1..Len(l) : l[i] = c})

\* task t's broadcast call returns in this step
Returns(t) == pc[t] = "send" /\ pc'[t] \notin {"send", "cancelled"}

\* the list `disconnected` of task t once the awaited send has ended
FinalFailed(t) == IF send_fails(cur[t]) THEN Append(failed[t], cur[t]) ELSE failed[t]

\* graceful_shutdown call g evaluates its loop test in this step, after a poll sleep
TestsAfterSleep(g) ==
  /\ pc[g] = "sleep"
  /\ <<pc'[g], wake'[g]>> # <<pc[g], wake[g]>>

\* graceful_shutdown call g evaluates its loop test in this step
Tests(g) ==
  /\ pc'[g] \in {"sleep", "done"}
  /\ pc[g] \in {"idle", "created", "send"} \/ TestsAfterSleep(g)

\* C1: when a broadcast call returns, every connection that was in
\* active_connections when the call started and is still in it has had
\* send_text called on it exactly once in that call.
C1_SurvivorsSentOnce ==
  [][\A t \in Tasks : Returns(t) =>
       \A c \in Range(bstart[t]) \cap Range(active') : Count(blog[t], c) = 1]_vars

\* C2: however often the shutdown sequence is triggered, the drain warning is
\* broadcast exactly once.
C2_OneWarning == nWarnings <= 1

\* C3: once shutdown_requested_at is assigned its value never changes.
C3_RequestedAtSetOnce ==
  [][requested_at # {} => requested_at' = requested_at]_vars

\* C4: with A, B, C (1, 2, 3) registered when the only graceful_shutdown call
\* starts and C never disconnecting, the warning broadcast, returning within the
\* first poll interval, has sent to A, B and C once each; and with A and B
\* disconnected the call ends at or after the deadline, Complete, with count() = 1.
C4_ThreeClients ==
  [][\A g \in Shutdowns :
       /\ (/\ Returns(g)
           /\ bstart[g] = <<1, 2, 3>>
           /\ nWarnings = 1
           /\ status[3] = "open"
           /\ now < TheTime(requested_at) + PollInterval)
          => \A c \in {1, 2, 3} : Count(blog[g], c) = 1
       /\ (/\ pc[g] # "done" /\ pc'[g] = "done"
           /\ nAdded = 3
           /\ nWarnings = 1
           /\ status[1] = "closed" /\ status[2] = "closed" /\ status[3] = "open")
          => /\ shutdown_event'
             /\ count(active') = 1
             /\ now' >= TheTime(requested_at) + DrainTimeout]_vars

\* C5: a connection whose send_text failed in a broadcast call was in
\* active_connections when the call started and is not in it when the call returns.
C5_FailedWasMemberAndIsRemoved ==
  [][\A t \in Tasks : Returns(t) =>
       \A c \in Range(FinalFailed(t)) :
          c \in Range(bstart[t]) /\ c \notin Range(active')]_vars

\* C6: count() is the number of connects minus the number of removals of a
\* connection that was present, and no connection is twice in active_connections.
C6_CountIsAddsMinusRemoves ==
  /\ count(active) = nAdded - nRemoved
  /\ \A c \in Conns : Count(active, c) <= 1

\* a broadcast still holds a failed connection that the disconnect handler has
\* already removed: its cleanup will find the connection absent
C6_Witness ==
  \E t \in Tasks : \E c \in Range(failed[t]) :
     /\ c \notin Range(active)
     /\ status[c] = "closed"
     /\ nRemoved >= 1
     /\ count(active) >= 1

C8_CompleteAtDeadline ==
  [][(~shutdown_event /\ shutdown_event' /\ nRemoved' = 0 /\ ~is_empty(active'))
       => /\ now' >= TheTime(requested_at') + DrainTimeout
          /\ now' <= TheTime(requested_at') + DrainTimeout + PollInterval]_vars

\* C9: every call of graceful_shutdown eventually reaches its last line and
\* sets shutdown_event, whatever clients do, when time advances and sends end.
C9_ShutdownCompletes ==
  \A g \in Shutdowns :
     (pc[g] \in {"created", "send", "sleep"}) ~> (pc[g] = "done" /\ shutdown_event)

\* a call left its loop at the deadline with clients still connected
C9_Witness ==
  \E g \in Shutdowns :
     /\ pc[g] = "done" /\ shutdown_event
     /\ ~is_empty(active)
     /\ now >= deadline[g]
     /\ deadline[g] > 0

\* the shutdown state: Running until graceful_shutdown is first called, Draining
\* until shutdown_event is set, Complete from then on
ShutdownState ==
  IF shutdown_event THEN "Complete"
  ELSE IF requested_at # {} THEN "Draining"
  ELSE "Running"

\* C10: once shutdown_event is set no periodic broadcast is in flight.
C10_NotifierStopped == shutdown_event => pc[NotifyTask] # "send"

TypeOK ==
  /\ status \in [Conns -> {"new", "open", "gone", "closed"}]
  /\ shutdown_event \in BOOLEAN
  /\ now \in 0..MaxTime
  /\ pc \in [Tasks -> {"idle", "created", "send", "sleep", "done", "cancelled"}]
  /\ Range(active) \subseteq Conns
  /\ inflight \in 0..1

\* C11: the status query reports shutdown_requested = true and a non-null
\* shutdown_requested_at exactly when the state is Draining or Complete.
C11_StatusAgrees ==
  /\ get_status.shutdown_requested = (ShutdownState \in {"Draining", "Complete"})
  /\ (get_status.shutdown_requested_at # {}) = (ShutdownState \in {"Draining", "Complete"})

\* C12: disconnect of a connection that is not in active_connections changes
\* nothing, in the disconnect handler (after a broadcast removed the connection)
\* and in the cleanup of a broadcast (after the handler removed it).
C12_DisconnectAbsentIsNoOp ==
  [][/\ \A c \in Conns :
          (status[c] = "gone" /\ status'[c] = "closed" /\ c \notin Range(active))
             => (active' = active /\ nRemoved' = nRemoved)
     /\ \A t \in Tasks :
          (Returns(t) /\ Range(FinalFailed(t)) \cap Range(active) = {})
             => (active' = active /\ nRemoved' = nRemoved)]_vars

\* a broadcast has removed a connection whose send failed and the disconnect
\* handler of that connection has still to run
C12_Witness ==
  \E c \in Conns :
     /\ status[c] = "gone"
     /\ c \notin Range(active)
     /\ nRemoved >= 1
     /\ count(active) >= 1
\* C13: adding a connection that is already registered fails and leaves the
\* registry unchanged: no call appends a connection that is already in the list.
C13_DuplicateAddRejected ==
  [][\A c \in Range(active) : active' # Append(active, c)]_vars

\* graceful_shutdown call g starts in this step
StartsShutdown(g) ==
  /\ pc[g] \in {"idle", "created"}
  /\ pc'[g] \in {"send", "sleep", "done"}

\* C14: a graceful_shutdown call that starts with an empty registry sends to
\* nobody, leaves the registry as it is and sets shutdown_event at its first
\* loop test, in the same step, with no poll sleep and before the deadline.
C14_EmptyRegistryCompletesAtOnce ==
  [][\A g \in Shutdowns : (StartsShutdown(g) /\ is_empty(active)) =>
       /\ pc'[g] = "done"
       /\ shutdown_event'
       /\ blog'[g] = <<>> /\ cur'[g] = cur[g]
       /\ active' = active
       /\ wake'[g] = wake[g]
       /\ now' = now
       /\ now' < TheTime(requested_at') + DrainTimeout]_vars

C14_Witness ==
  /\ nAdded = 0
  /\ shutdown_event
  /\ \E g \in Shutdowns : pc[g] = "done"
  /\ now < TheTime(requested_at) + DrainTimeout

\* C15: a broadcast call whose sends fail goes on to its return; the registry
\* is not changed by the call between two sends; when it returns, every
\* connection that stood after a failed one in the list of the call's start and
\* is still registered has been sent to, and exactly the failed ones are removed.
C15_FailureDoesNotAbort ==
  [][\A t \in Tasks :
       /\ (pc[t] = "send" /\ pc'[t] = "send" /\ it'[t] # it[t]) => active' = active
       /\ Returns(t) =>
            /\ \A i, j \in 1..Len(bstart[t]) :
                 (/\ i < j
                  /\ bstart[t][i] \in Range(FinalFailed(t))
                  /\ bstart[t][j] \in Range(active))
                    => bstart[t][j] \in Range(blog[t])
            /\ Range(active') = Range(active) \ Range(FinalFailed(t))]_vars

\* C16: in the step that sets shutdown_event the registry is empty or the time
\* is at or past shutdown_requested_at + the drain timeout.
C16_CompleteOnlyWhenEmptyOrExpired ==
  [][(~shutdown_event /\ shutdown_event') =>
       (is_empty(active') \/ now' >= TheTime(requested_at') + DrainTimeout)]_vars

\* C17: a broadcast call sends only to connections that were registered when
\* the call started; a connection added later is not sent this call's message.
C17_AddedLaterIsSkipped ==
  \A t \in Tasks : pc[t] = "send" => Range(blog[t]) \subseteq Range(bstart[t])

\* C18: at most one broadcast of the notifier is in flight, however long its
\* sends take; the sleep that follows a broadcast starts when the broadcast
\* returns, so a tick that falls inside a broadcast is put off.
C18_NoOverlappingTicks ==
  /\ [](inflight <= 1)
  /\ [][(Returns(NotifyTask) /\ pc'[NotifyTask] = "sleep")
          => wake'[NotifyTask] = now + NotifyInterval]_vars

C18_Witness ==
  /\ pc[NotifyTask] = "send"
  /\ inflight = 1
  /\ now >= wake[NotifyTask] + NotifyInterval

Rank(st) == IF st = "Running" THEN 0 ELSE IF st = "Draining" THEN 1 ELSE 2

\* C19: the shutdown state never moves backwards: shutdown_event is never
\* cleared and shutdown_requested_at never returns to None, also when
\* graceful_shutdown is called again; shutdown_event is set only after
\* shutdown_requested_at.
C19_StateIsMonotonic ==
  /\ [](shutdown_event => requested_at # {})
  /\ [][/\ Rank(ShutdownState') >= Rank(ShutdownState)
        /\ shutdown_event => shutdown_event'
        /\ requested_at # {} => requested_at' # {}]_vars

C19_Witness ==
  /\ shutdown_event
  /\ \E g \in Shutdowns : pc[g] \in {"send", "sleep"}

\* C20: every send starts on a connection that is in active_connections at
\* that moment; a connection removed by disconnect is not sent to by a
\* broadcast in progress that has not reached it, nor by a later broadcast.
C20_SendOnlyToMembers ==
  [][\A t \in Tasks :
       (pc'[t] = "send" /\ (pc[t] # "send" \/ it'[t] # it[t]))
          => cur'[t] \in Range(active')]_vars

C20_Witness ==
  \E t \in Tasks :
    /\ pc[t] = "send"
    /\ \E i, j \in 1..Len(bstart[t]) :
         /\ i < j
         /\ bstart[t][j] = cur[t]
         /\ bstart[t][i] \notin Range(active)
         /\ bstart[t][i] \notin Range(blog[t])

====
